---------------------------- MODULE Spec2Model ----------------------------
(***************************************************************************)
(* The vinyl pool cost estimator of src/app.py as a state machine.         *)
(*                                                                         *)
(* app.py is a Streamlit script: every user interaction reruns the whole   *)
(* script from the top.  The state that survives a rerun is the widget     *)
(* state, the st.cache_data store of get_drive_km_and_time and the files   *)
(* written to disk; the page is what the last run rendered.                *)
(*                                                                         *)
(* Units.  Text is a sequence of one-character strings.  Lengths (feet,    *)
(* inches) are integers counting halves, so Ft(76) is 76 ft and 16.5 ft is *)
(* 33; areas count quarter square feet.  Money counts 1/3600 of a dollar   *)
(* (Cents(c) is c cents), hours count 1/3600 of an hour (seconds) and      *)
(* kilometres count 1/1000 of a kilometre (metres): with these units every *)
(* product and quotient of the script is an exact integer, so the model    *)
(* computes the script's arithmetic over the rationals.  Binary floating   *)
(* point rounding of the Python floats is outside the model.               *)
(***************************************************************************)
EXTENDS Integers, Sequences, FiniteSets, TLC

VARIABLES
    widgets,   \* values of the pool_form widgets as last submitted (lines 168-178)
    cache,     \* st.cache_data store of get_drive_km_and_time (line 94)
    files,     \* names of the PDF files generate_pdf has written (line 133)
    page,      \* what the last script run rendered
    event,     \* the interaction that triggered the last script run
    provider,  \* the distance provider during the last run: its answer, and whether it was called
    mail       \* send_email_with_attachment in the last run: "none", "sent", "failed" or "raised"

vars == <<widgets, cache, files, page, event, provider, mail>>

----------------------------------------------------------------------------
(* Characters                                                              *)

UpperChars == <<"A","B","C","D","E","F","G","H","I","J","K","L","M",
                "N","O","P","Q","R","S","T","U","V","W","X","Y","Z">>

LowerChars == <<"a","b","c","d","e","f","g","h","i","j","k","l","m",
                "n","o","p","q","r","s","t","u","v","w","x","y","z">>

UpperSet == {UpperChars[i] : i \in 1..26}

LowerSet == {LowerChars[i] : i \in 1..26}

DigitSet == {"0","1","2","3","4","5","6","7","8","9"}

\* regex \w
WordSet == UpperSet \cup LowerSet \cup DigitSet \cup {"_"}

\* regex \s, str.strip(), str.split()
SpaceSet == {" ", "\t"}

LowerOf == [c \in UpperSet |-> LowerChars[CHOOSE i \in 1..26 : UpperChars[i] = c]]

UpperOf == [c \in LowerSet |-> UpperChars[CHOOSE i \in 1..26 : LowerChars[i] = c]]

IsAlpha(c) == c \in UpperSet \/ c \in LowerSet

IsWordChar(c) == c \in WordSet

IsSpaceChar(c) == c \in SpaceSet

ToLower(c) == IF c \in UpperSet THEN LowerOf[c] ELSE c

ToUpper(c) == IF c \in LowerSet THEN UpperOf[c] ELSE c

\* str.lower()
Lower(s) == [i \in 1..Len(s) |-> ToLower(s[i])]

\* str.title(): a letter is upper-cased after a non-letter, lower-cased after a letter
Title(s) ==
    [i \in 1..Len(s) |->
        IF i = 1 \/ ~IsAlpha(s[i-1]) THEN ToUpper(s[i]) ELSE ToLower(s[i])]

\* the first position from i on that holds no whitespace (Len(s) + 1: none)
RECURSIVE SkipSpaces(_, _)
SkipSpaces(s, i) ==
    IF i <= Len(s) /\ IsSpaceChar(s[i]) THEN SkipSpaces(s, i + 1) ELSE i

\* the last position up to i that holds no whitespace (0: none)
RECURSIVE SkipSpacesBack(_, _)
SkipSpacesBack(s, i) ==
    IF i >= 1 /\ IsSpaceChar(s[i]) THEN SkipSpacesBack(s, i - 1) ELSE i

\* str.strip()
Strip(s) == SubSeq(s, SkipSpaces(s, 1), SkipSpacesBack(s, Len(s)))

Range(s) == {s[i] : i \in 1..Len(s)}

\* needle in haystack (Python's substring test)
Contains(haystack, needle) ==
    \E i \in 1..(Len(haystack) - Len(needle) + 1) :
        SubSeq(haystack, i, i + Len(needle) - 1) = needle

\* `not s.strip()` (lines 97 and 183)
IsBlankNoStrip(s) == s = <<>>

IsBlank(s) == Strip(s) = <<>>

----------------------------------------------------------------------------
(* Units                                                                   *)

Ft(n) == 2 * n

Cents(c) == 36 * c

Dollars(d) == Cents(100 * d)

\* length (halves) times a rate in cents per unit length
PerFoot(len, rateCents) == len * rateCents * 18

\* area (quarters) times a rate in cents per unit area
PerSqft(area, rateCents) == area * rateCents * 9

\* f"{x:.0f}" and f"{x:.2f}" of the rational n/d: round to nearest, ties to even
RoundHalfEven(n, d) ==
    LET q == n \div d
        r == n % d
    IN  IF 2 * r < d THEN q
        ELSE IF 2 * r > d THEN q + 1
        ELSE IF q % 2 = 0 THEN q ELSE q + 1

----------------------------------------------------------------------------
(* Constants (lines 15-64)                                                 *)

\* dollars
COST_TABLE ==
    [Small |->
        [Easy      |-> ("Excavation" :> 3791 @@ "Pool Work" :> 5391  @@ "Liner" :> 1178),
         Moderate  |-> ("Excavation" :> 4140 @@ "Pool Work" :> 6860  @@ "Liner" :> 1178),
         Difficult |-> ("Excavation" :> 4488 @@ "Pool Work" :> 8269  @@ "Liner" :> 1535)],
     Medium |->
        [Easy      |-> ("Excavation" :> 3132 @@ "Pool Work" :> 5391  @@ "Liner" :> 1608),
         Moderate  |-> ("Excavation" :> 4140 @@ "Pool Work" :> 7890  @@ "Liner" :> 1981),
         Difficult |-> ("Excavation" :> 4894 @@ "Pool Work" :> 10842 @@ "Liner" :> 2354)],
     Large |->
        [Easy      |-> ("Excavation" :> 7016 @@ "Pool Work" :> 7935  @@ "Liner" :> 1567),
         Moderate  |-> ("Excavation" :> 7016 @@ "Pool Work" :> 7935  @@ "Liner" :> 1567),
         Difficult |-> ("Excavation" :> 7016 @@ "Pool Work" :> 7935  @@ "Liner" :> 1567)]]

\* cents
INSTALL_COST == [Small |-> 28169, Medium |-> 38849, Large |-> 49529]

\* the dict in its insertion order: key, fee in dollars
PERMIT_COSTS ==
    << [key |-> <<"b", "u", "r", "l", "i", "n", "g", "t", "o", "n">>, fee |-> 1000],
       [key |-> <<"o", "a", "k", "v", "i", "l", "l", "e">>, fee |-> 1000],
       [key |-> <<"m", "i", "s", "s", "i", "s", "s", "a", "u", "g", "a">>, fee |-> 500],
       [key |-> <<"t", "o", "r", "o", "n", "t", "o">>, fee |-> 500],
       [key |-> <<"b", "r", "a", "m", "p", "t", "o", "n">>, fee |-> 500],
       [key |-> <<"e", "t", "o", "b", "i", "c", "o", "k", "e">>, fee |-> 500],
       [key |-> <<"h", "a", "m", "i", "l", "t", "o", "n">>, fee |-> 500] >>

\* cents
FIXED_COSTS ==
    [Plumbing          |-> 180000,
     Filter            |-> 119250,
     SaltSystem        |-> 134835 + 10000,
     Transformer       |-> 14033,
     DrainKit          |-> 36280,
     WinterCoverLabour |-> 30000]

PUMP_LABELS ==
    << "Jandy VSFHP165AUT, VS FloPro Variable Speed Pump W/O JEP-R",
       "Jandy VS FloPro 1.65 HP Variable-Speed Pump, 115/230 VAC, w/SpeedSet Control",
       "Jandy VS FloPro 1.85 HP Variable-Speed Pump 115/230 VAC, 2 AUX Relays",
       "Jandy VS FloPro 2.7 HP Variable-Speed Pump, 115/230 Vac, 2 Aux Relays, w/o" >>

\* cents
PUMP_OPTIONS ==
    PUMP_LABELS[1] :> 121714 @@ PUMP_LABELS[2] :> 149069 @@
    PUMP_LABELS[3] :> 138021 @@ PUMP_LABELS[4] :> 187046

HEATER_LABELS ==
    << "Jandy JXIQ Pool Heater, 200, Natural Gas, Copper Hx, Versaflo, Poly Header",
       "Jandy JXI Pool Heater 200 Propane/ Natural",
       "Jandy JXIQ Pool Heater, 260, Natural Gas, Copper Hx, Versaflo, Poly Header",
       "Jandy JXI Pool Heater 260 Propane/ Natural",
       "Jandy JXIQ Pool Heater, 400, Natural Gas, Copper Hx, Versaflo, Poly Header",
       "Jandy JXI Pool Heater 400 Natural/ Propane" >>

\* cents
HEATER_OPTIONS ==
    HEATER_LABELS[1] :> 306773 @@ HEATER_LABELS[2] :> 271861 @@
    HEATER_LABELS[3] :> 329429 @@ HEATER_LABELS[4] :> 293609 @@
    HEATER_LABELS[5] :> 354977 @@ HEATER_LABELS[6] :> 321275

\* the origin of every distance lookup (line 191)
DEPOT == "5491 Appleby Line, Burlington, ON"


----------------------------------------------------------------------------
(* Helper functions (lines 68-92)                                          *)

\* the first position from i on that holds whitespace (Len(s) + 1: none)
RECURSIVE SkipWord(_, _)
SkipWord(s, i) ==
    IF i <= Len(s) /\ ~IsSpaceChar(s[i]) THEN SkipWord(s, i + 1) ELSE i

\* "_".join(s.split()) read from position i on: the maximal runs of
\* non-whitespace characters, in order, with sep between them
RECURSIVE JoinWords(_, _, _)
JoinWords(s, i, sep) ==
    LET from == SkipSpaces(s, i)
        to   == SkipWord(s, from)
    IN  IF from > Len(s) THEN <<>>
        ELSE IF SkipSpaces(s, to) > Len(s) THEN SubSeq(s, from, to - 1)
        ELSE SubSeq(s, from, to - 1) \o sep \o JoinWords(s, to, sep)

\* re.sub(r'[^\w\s]', '', address), then strip, split and join with "_"
sanitize_filename(address) ==
    LET clean == SelectSeq(address, LAMBDA c : IsWordChar(c) \/ IsSpaceChar(c))
    IN  JoinWords(Strip(clean), 1, <<"_">>)

\* the character class [\w\s\-]
InLocalityClass(c) == IsWordChar(c) \/ IsSpaceChar(c) \/ c = "-"

\* whether s continues at position i with word, compared case-insensitively
StartsWithIgnoreCase(s, i, word) ==
    /\ i + Len(word) - 1 <= Len(s)
    /\ Lower(SubSeq(s, i, i + Len(word) - 1)) = word

\* the pattern's tail  ,\s*(ON|Ontario)  matched at position p
ProvinceTailAt(address, p) ==
    /\ p <= Len(address)
    /\ address[p] = ","
    /\ \/ StartsWithIgnoreCase(address, SkipSpaces(address, p + 1), <<"o", "n">>)
       \/ StartsWithIgnoreCase(address, SkipSpaces(address, p + 1),
                               <<"o", "n", "t", "a", "r", "i", "o">>)

\* The lazy group ([\w\s\-]+?) of a match that starts at s and has reached e:
\* it stops at the first e after which the tail matches, and otherwise takes
\* one more character of the class.  The end of the group, or 0: no match at s.
RECURSIVE LocalityEnd(_, _)
LocalityEnd(address, e) ==
    IF e > Len(address) \/ ~InLocalityClass(address[e]) THEN 0
    ELSE IF ProvinceTailAt(address, e + 1) THEN e
    ELSE LocalityEnd(address, e + 1)

\* re.search from position s on: the leftmost start at which the pattern
\* matches, with the group's end.  <<0, 0>> when there is no match.
RECURSIVE SearchFrom(_, _)
SearchFrom(address, s) ==
    LET e == LocalityEnd(address, s)
    IN  IF s > Len(address) THEN <<0, 0>>
        ELSE IF e # 0 THEN <<s, e>>
        ELSE SearchFrom(address, s + 1)

SearchLocality(address) == SearchFrom(address, 1)

get_city(address) ==
    LET match == SearchLocality(address)
    IN  IF match # <<0, 0>>
        THEN Lower(Strip(SubSeq(address, match[1], match[2])))
        ELSE <<>>

\* the loop of lines 78-81 from entry i of PERMIT_COSTS on
RECURSIVE PermitFrom(_, _)
PermitFrom(city, i) ==
    IF i > Len(PERMIT_COSTS) THEN 0
    ELSE IF Contains(city, PERMIT_COSTS[i].key) THEN Dollars(PERMIT_COSTS[i].fee)
    ELSE PermitFrom(city, i + 1)

\* the same loop keeping the last match instead of returning the first
RECURSIVE PermitLastFrom(_, _)
PermitLastFrom(city, i) ==
    IF i < 1 THEN 0
    ELSE IF Contains(city, PERMIT_COSTS[i].key) THEN Dollars(PERMIT_COSTS[i].fee)
    ELSE PermitLastFrom(city, i - 1)

get_permit_cost_last_match(address) == PermitLastFrom(get_city(address), Len(PERMIT_COSTS))

get_permit_cost(address) == PermitFrom(get_city(address), 1)

dist_factor(distance_ft) ==
    IF distance_ft <= Ft(70) THEN 1 ELSE IF distance_ft <= Ft(120) THEN 2 ELSE 3

acc_factor(access_in) == IF access_in < Ft(70) THEN 2 ELSE 1

difficulty_score(distance_ft, access_in) == dist_factor(distance_ft) * acc_factor(access_in)

calculate_difficulty_strict(distance_ft, access_in) ==
    LET score == (IF distance_ft < Ft(70) THEN 1 ELSE IF distance_ft < Ft(120) THEN 2 ELSE 3)
                 * (IF access_in <= Ft(70) THEN 2 ELSE 1)
    IN  IF score = 1 THEN "Easy" ELSE IF score = 2 THEN "Moderate" ELSE "Difficult"

calculate_difficulty(distance_ft, access_in) ==
    LET score == difficulty_score(distance_ft, access_in)
    IN  IF score = 1 THEN "Easy"
        ELSE IF score = 2 THEN "Moderate"
        ELSE "Difficult"


----------------------------------------------------------------------------
(* The distance provider and get_drive_km_and_time (lines 94-110)          *)

\* What gmaps.distance_matrix does when called: it raises (status "error"), or
\* returns an element whose status is "OK" with a distance in metres and a
\* duration in seconds, or an element with another status.
OkResponse(metres, seconds) == [status |-> "OK", distance |-> metres, duration |-> seconds]

FailResponse(status) == [status |-> status, distance |-> 0, duration |-> 0]

NoResponse == FailResponse("idle")

\* element['distance']['value'] / 1000, in thousandths of a kilometre
KmOf(metres) == (1000 * metres) \div 1000

\* element['duration']['value'] / 3600, in 3600ths of an hour
HoursOf(seconds) == (3600 * seconds) \div 3600

\* The body of get_drive_km_and_time.  called: whether the provider was called;
\* warning: the text given to st.warning, "" when there is none; raised: whether
\* an exception leaves the function.
DriveBodyUncaught(origin, destination, r) ==
    IF IsBlank(destination)
    THEN [km |-> 0, hr |-> 0, warning |-> "", called |-> FALSE, raised |-> FALSE]
    ELSE IF r.status = "error"
    THEN [km |-> 0, hr |-> 0, warning |-> "", called |-> TRUE, raised |-> TRUE]
    ELSE IF r.status # "OK"
    THEN [km |-> 0, hr |-> 0, warning |-> "Google Distance Matrix API returned status",
          called |-> TRUE, raised |-> FALSE]
    ELSE [km |-> KmOf(r.distance), hr |-> HoursOf(r.duration), warning |-> "",
          called |-> TRUE, raised |-> FALSE]

DriveBody(origin, destination, r) ==
    IF IsBlank(destination)
    THEN [km |-> 0, hr |-> 0, warning |-> "", called |-> FALSE, raised |-> FALSE]
    ELSE IF r.status = "error"
    THEN [km |-> 0, hr |-> 0, warning |-> "Error calling Google Maps API",
          called |-> TRUE, raised |-> FALSE]
    ELSE IF r.status # "OK"
    THEN [km |-> 0, hr |-> 0, warning |-> "Google Distance Matrix API returned status",
          called |-> TRUE, raised |-> FALSE]
    ELSE [km |-> KmOf(r.distance), hr |-> HoursOf(r.duration), warning |-> "",
          called |-> TRUE, raised |-> FALSE]

\* @st.cache_data: the body runs once per (origin, destination); its return value
\* and the st.warning it made are stored and replayed for every later call with
\* the same arguments.  A call that raises stores nothing.  store: the cache
\* before the call.
get_drive_km_and_time(origin, destination, r, store) ==
    LET key == <<origin, destination>>
    IN  IF key \in DOMAIN store
        THEN [km |-> store[key].km, hr |-> store[key].hr, warning |-> store[key].warning,
              called |-> FALSE, raised |-> FALSE, store |-> store]
        ELSE LET ret == DriveBody(origin, destination, r)
             IN  [km |-> ret.km, hr |-> ret.hr, warning |-> ret.warning,
                  called |-> ret.called, raised |-> ret.raised,
                  store |-> IF ret.raised THEN store
                            ELSE (key :> [km |-> ret.km, hr |-> ret.hr,
                                          warning |-> ret.warning]) @@ store]

----------------------------------------------------------------------------
(* send_email_with_attachment (lines 135-156)                              *)

\* attached: whether attachment_path can be opened; smtp: "ok" when connecting,
\* starttls, login and send_message all succeed, otherwise the step that raises.
\* The open of line 142 is outside the try, so its error propagates.
send_email_with_attachment(attached, smtp) ==
    IF ~attached THEN [raised |-> TRUE, success |-> FALSE, message |-> ""]
    ELSE IF smtp = "ok"
    THEN [raised |-> FALSE, success |-> TRUE, message |-> "Email sent successfully."]
    ELSE [raised |-> FALSE, success |-> FALSE, message |-> "Failed to send email"]

----------------------------------------------------------------------------
(* The estimate (lines 186-264)                                            *)

RECURSIVE SumSeq(_)
SumSeq(s) == IF s = <<>> THEN 0 ELSE Head(s) + SumSeq(Tail(s))

linear_feet_of(w) == 2 * (w.width + w.length)

sqft_of(w) == w.width * w.length

category_strict(linear_feet) ==
    IF linear_feet < Ft(76) THEN "Small"
    ELSE IF linear_feet < Ft(104) THEN "Medium"
    ELSE "Large"

category_of(linear_feet) ==
    IF linear_feet <= Ft(76) THEN "Small"
    ELSE IF linear_feet <= Ft(104) THEN "Medium"
    ELSE "Large"

\* math.ceil(linear_feet / 10) * 10
rounded_of(linear_feet) == ((linear_feet + Ft(10) - 1) \div Ft(10)) * Ft(10)

\* drive_hr * 35 * 26 * 4
drive_cost_of(drive_hr) == drive_hr * 35 * 26 * 4

lights_total_of(lights) == lights * Cents(36665)

transformer_per_light(lights) == lights * Cents(FIXED_COSTS.Transformer)

transformer_of(lights) == IF lights > 0 THEN Cents(FIXED_COSTS.Transformer) ELSE 0

\* the values of lines 186-209 that the total and the breakdown are built from
LineItems(w, permit_cost, drive_cost) ==
    LET linear_feet == linear_feet_of(w)
        sqft        == sqft_of(w)
        category    == category_of(linear_feet)
        difficulty  == calculate_difficulty(w.dist_to_pool, w.access_in)
        costs       == COST_TABLE[category][difficulty]
        base_liner  == Cents(INSTALL_COST[category])
        extra       == IF w.steps = "Yes"
                       THEN PerFoot(linear_feet, 2212)
                       ELSE PerFoot(linear_feet, 2212) + Dollars(300)
        rounded     == rounded_of(linear_feet)
        track_rate  == IF w.tracking = "Side Mount Single Track" THEN 427 ELSE 839
    IN  [excavation    |-> Dollars(costs["Excavation"]),
         pool_work     |-> Dollars(costs["Pool Work"]),
         liner         |-> Dollars(costs["Liner"]),
         liner_material |-> base_liner + extra,
         hpb           |-> PerFoot(linear_feet, 725),
         steel         |-> PerFoot(linear_feet, 5000),
         tracking_cost |-> PerFoot(rounded, track_rate),
         concrete      |-> PerSqft(sqft, 525),
         soft          |-> PerSqft(sqft, 50),
         winter_area   |-> PerSqft(sqft, 350),
         lights_total  |-> lights_total_of(w.lights),
         transformer   |-> transformer_of(w.lights),
         drain_kit     |-> Cents(FIXED_COSTS.DrainKit),
         plumbing      |-> Cents(FIXED_COSTS.Plumbing),
         heater_cost   |-> Cents(HEATER_OPTIONS[w.selected_heater]),
         filter        |-> Cents(FIXED_COSTS.Filter),
         pump_cost     |-> Cents(PUMP_OPTIONS[w.selected_pump]),
         salt_system   |-> Cents(FIXED_COSTS.SaltSystem),
         winter_labour |-> Cents(FIXED_COSTS.WinterCoverLabour),
         permit_cost   |-> permit_cost,
         drive_cost    |-> drive_cost]

\* the sum of lines 211-222 with drive_cost left out
total_without_drive(li) ==
    SumSeq(<< li.excavation, li.pool_work, li.liner,
              li.liner_material, li.hpb, li.steel, li.tracking_cost,
              li.concrete, li.soft,
              li.lights_total, li.transformer,
              li.drain_kit, li.plumbing,
              li.heater_cost,
              li.filter, li.pump_cost,
              li.salt_system,
              li.winter_labour, li.winter_area,
              li.permit_cost >>)

\* lines 211-222
total_of(li) ==
    SumSeq(<< li.excavation, li.pool_work, li.liner,
              li.liner_material, li.hpb, li.steel, li.tracking_cost,
              li.concrete, li.soft,
              li.lights_total, li.transformer,
              li.drain_kit, li.plumbing,
              li.heater_cost,
              li.filter, li.pump_cost,
              li.salt_system,
              li.winter_labour, li.winter_area,
              li.permit_cost, li.drive_cost >>)

\* lines 241-264: the dict in its insertion order
breakdown_of(li) ==
    << <<"Excavation", li.excavation>>,
       <<"Pool Work", li.pool_work>>,
       <<"Liner Labor", li.liner>>,
       <<"Liner Material + Steps", li.liner_material>>,
       <<"HPB", li.hpb>>,
       <<"Steel", li.steel>>,
       <<"Tracking", li.tracking_cost>>,
       <<"Concrete", li.concrete>>,
       <<"Softbottom", li.soft>>,
       <<"Lights", li.lights_total>>,
       <<"Transformer", li.transformer>>,
       <<"Drain Kit", li.drain_kit>>,
       <<"Plumbing", li.plumbing>>,
       <<"Heater", li.heater_cost>>,
       <<"Filter", li.filter>>,
       <<"Pump", li.pump_cost>>,
       <<"Salt System (+salt)", li.salt_system>>,
       <<"Winter Cover Area", li.winter_area>>,
       <<"Winter Cover Labour", li.winter_labour>>,
       <<"Permit", li.permit_cost>>,
       <<"Drive Time Labour", li.drive_cost>>,
       <<"Total", total_of(li)>> >>

\* lines 224-239: the dict in its insertion order.  The formatted numbers are
\* kept as the number the format prints: "Linear Feet" and "Square Ft" in whole
\* feet, "Drive Distance" in hundredths of a kilometre, "Drive Time" in minutes.
summary_of(w, drive_km, drive_hr) ==
    LET linear_feet == linear_feet_of(w)
    IN  << <<"Address", w.address>>,
           <<"Pool Size", <<w.width, w.length>> >>,
           <<"Linear Feet", RoundHalfEven(linear_feet, Ft(1))>>,
           <<"Square Ft", RoundHalfEven(sqft_of(w), Ft(1) * Ft(1))>>,
           <<"Category", category_of(linear_feet)>>,
           <<"Difficulty", calculate_difficulty(w.dist_to_pool, w.access_in)>>,
           <<"City", Title(get_city(w.address))>>,
           <<"Fibreglass Steps", w.steps>>,
           <<"Tracking Type", w.tracking>>,
           <<"Lights", w.lights>>,
           <<"Pump Model", w.selected_pump>>,
           <<"Heater Model", w.selected_heater>>,
           <<"Drive Distance", RoundHalfEven(drive_km, 10)>>,
           <<"Drive Time", RoundHalfEven(drive_hr * 60, 3600)>> >>

\* the value stored under key in an ordered dict
ValueOf(dict, key) == dict[CHOOSE i \in 1..Len(dict) : dict[i][1] = key][2]

Keys(dict) == [i \in 1..Len(dict) |-> dict[i][1]]


----------------------------------------------------------------------------
(* The script (lines 161-301)                                              *)

EstimateSuffix == <<"_", "E", "s", "t", "i", "m", "a", "t", "e", ".", "p", "d", "f">>

\* a page: the messages of st.error / st.warning / st.success in render order,
\* the two dicts written with st.write, the file the download button offers
\* (<<>>: no button) and whether the email inputs and "Send Email" are rendered
BlankPage(kind, messages) ==
    [kind |-> kind, messages |-> messages, summary |-> <<>>, breakdown |-> <<>>,
     download |-> <<>>, email_controls |-> FALSE]

\* lines 285-301; emails: the values of the three text inputs
EmailMessages(send_email, emails, result) ==
    IF ~send_email THEN <<>>
    ELSE IF emails.recipient_email = "" \/ emails.sender_email = ""
            \/ emails.sender_password = ""
    THEN << <<"error", "Please enter recipient email, sender email and password.">> >>
    ELSE IF result.success THEN << <<"success", result.message>> >>
    ELSE << <<"error", result.message>> >>

\* One run of the script.  w: the form's values; submit, send_email: what the two
\* buttons return in this run; emails: the values of the email inputs in this
\* run; r: what the provider does if called; smtp: what the mail server does if
\* used; store, disk: the cache and the files before the run.
Script(w, submit, send_email, emails, r, smtp, store, disk) ==
    IF ~submit
    THEN [page |-> BlankPage("form", <<>>), store |-> store, disk |-> disk,
          called |-> FALSE, mail |-> "none"]
    ELSE IF IsBlank(w.address)
    THEN [page |-> BlankPage("error",
            << <<"error", "Please enter a valid pool address before generating estimate.">> >>),
          store |-> store, disk |-> disk, called |-> FALSE, mail |-> "none"]
    ELSE
      LET permit_cost == get_permit_cost(w.address)
          drive       == get_drive_km_and_time(DEPOT, w.address, r, store)
      IN  IF drive.raised
          THEN [page |-> BlankPage("exception", <<>>), store |-> drive.store,
                disk |-> disk, called |-> drive.called, mail |-> "none"]
          ELSE
            LET li        == LineItems(w, permit_cost, drive_cost_of(drive.hr))
                file_path == sanitize_filename(w.address) \o EstimateSuffix
                written   == disk \cup {file_path}
                filled    == /\ emails.recipient_email # ""
                             /\ emails.sender_email # ""
                             /\ emails.sender_password # ""
                sending   == send_email /\ filled
                result    == send_email_with_attachment(file_path \in written, smtp)
                warnings  == IF drive.warning = "" THEN <<>>
                             ELSE << <<"warning", drive.warning>> >>
            IN  [page |->
                    [kind |-> IF sending /\ result.raised THEN "exception" ELSE "estimate",
                     messages |-> warnings \o << <<"success", "Estimate Ready">> >>
                                  \o (IF sending /\ result.raised THEN <<>>
                                      ELSE EmailMessages(send_email, emails, result)),
                     summary |-> summary_of(w, drive.km, drive.hr),
                     breakdown |-> breakdown_of(li),
                     download |-> file_path,
                     email_controls |-> TRUE],
                 store |-> drive.store,
                 disk |-> written,
                 called |-> drive.called,
                 mail |-> IF ~sending THEN "none"
                          ELSE IF result.raised THEN "raised"
                          ELSE IF result.success THEN "sent" ELSE "failed"]


----------------------------------------------------------------------------
(* The inputs the user and the environment choose from                     *)

\* ''
AddrEmpty ==
    <<>>

\* '  '
AddrSpaces ==
    <<" ", " ">>

\* '123 Main St, Toronto, ON'
AddrToronto ==
    <<"1", "2", "3", " ", "M", "a", "i", "n", " ", "S", "t", ",", " ", "T", "o", "r", "o", "n", "t", "o", ",", " ", "O", "N">>

\* '1 Rd, Burlington, Ontario'
AddrBurlington ==
    <<"1", " ", "R", "d", ",", " ", "B", "u", "r", "l", "i", "n", "g", "t", "o", "n", ",", " ", "O", "n", "t", "a", "r", "i", "o">>

\* '1 Rd, Nowhere, ON'
AddrNowhere ==
    <<"1", " ", "R", "d", ",", " ", "N", "o", "w", "h", "e", "r", "e", ",", " ", "O", "N">>

\* 'Toronto St Burlington, ON'
AddrTwoKeys ==
    <<"T", "o", "r", "o", "n", "t", "o", " ", "S", "t", " ", "B", "u", "r", "l", "i", "n", "g", "t", "o", "n", ",", " ", "O", "N">>

\* '5 Oak Ave, Hamilton'
AddrNoProvince ==
    <<"5", " ", "O", "a", "k", " ", "A", "v", "e", ",", " ", "H", "a", "m", "i", "l", "t", "o", "n">>

\* '7 King, North-Oakville,on'
AddrHyphenLower ==
    <<"7", " ", "K", "i", "n", "g", ",", " ", "N", "o", "r", "t", "h", "-", "O", "a", "k", "v", "i", "l", "l", "e", ",", "o", "n">>

\* '2 Toronto Rd, Caledonia, ON'
AddrStreetName ==
    <<"2", " ", "T", "o", "r", "o", "n", "t", "o", " ", "R", "d", ",", " ", "C", "a", "l", "e", "d", "o", "n", "i", "a", ",", " ", "O", "N">>

\* '8 Bay, Oneida, Brampton, ON'
AddrOnPrefix ==
    <<"8", " ", "B", "a", "y", ",", " ", "O", "n", "e", "i", "d", "a", ",", " ", "B", "r", "a", "m", "p", "t", "o", "n", ",", " ", "O", "N">>

\* '5 Oak, Toronto, ON'
AddrOak ==
    <<"5", " ", "O", "a", "k", ",", " ", "T", "o", "r", "o", "n", "t", "o", ",", " ", "O", "N">>

\* '1 Bay, Ajax, ON'
AddrAjax ==
    <<"1", " ", "B", "a", "y", ",", " ", "A", "j", "a", "x", ",", " ", "O", "N">>

\* the largest number of lights entered
MaxLights == 2

\* how far, in half feet or half inches, an entered length lies from a threshold
MaxStep == 1

NearBy(x) == {x + d : d \in -MaxStep..MaxStep}

\* the widgets' initial values (lines 168-178)
Defaults ==
    [address |-> AddrEmpty, width |-> Ft(16), length |-> Ft(32),
     dist_to_pool |-> Ft(65), access_in |-> Ft(65),
     steps |-> "Yes", tracking |-> "Side Mount Single Track", lights |-> 0,
     selected_pump |-> PUMP_LABELS[1], selected_heater |-> HEATER_LABELS[1]]

NoEmails == [recipient_email |-> "", sender_email |-> "", sender_password |-> ""]

SomeEmails == [recipient_email |-> "client@example.com", sender_email |-> "",
               sender_password |-> ""]

AllEmails == [recipient_email |-> "client@example.com", sender_email |-> "owner@gmail.com",
              sender_password |-> "app-password"]

Responses ==
    {OkResponse(5000, 720), OkResponse(42350, 2700),
     FailResponse("NOT_FOUND"), FailResponse("error")}

\* the forms that differ from w in at most one field, each field within its set
OneFieldChanged(w, addresses, widths, lengths, distances, accesses, stepses, trackings, lightses, pumps, heaters) ==
    {w}
    \cup {[w EXCEPT !.address = v] : v \in addresses}
    \cup {[w EXCEPT !.width = v] : v \in widths}
    \cup {[w EXCEPT !.length = v] : v \in lengths}
    \cup {[w EXCEPT !.dist_to_pool = v] : v \in distances}
    \cup {[w EXCEPT !.access_in = v] : v \in accesses}
    \cup {[w EXCEPT !.steps = v] : v \in stepses}
    \cup {[w EXCEPT !.tracking = v] : v \in trackings}
    \cup {[w EXCEPT !.lights = v] : v \in lightses}
    \cup {[w EXCEPT !.selected_pump = v] : v \in pumps}
    \cup {[w EXCEPT !.selected_heater = v] : v \in heaters}

----------------------------------------------------------------------------
(* The state machine                                                       *)

Init ==
    /\ widgets = Defaults
    /\ cache = <<>>
    /\ files = {}
    /\ page = BlankPage("form", <<>>)
    /\ event = [kind |-> "load", emails |-> NoEmails, smtp |-> "idle"]
    /\ provider = [called |-> FALSE, resp |-> NoResponse]
    /\ mail = "none"

\* the state after the script ran with these inputs
Rerun(w, run, ev, resp) ==
    /\ widgets' = w
    /\ cache' = run.store
    /\ files' = run.disk
    /\ page' = run.page
    /\ event' = ev
    /\ provider' = [called |-> run.called, resp |-> resp]
    /\ mail' = run.mail

\* The user fills the form with f and presses "Generate Estimate" while the
\* provider would answer r: form_submit_button returns True in this run only,
\* the email inputs are rendered anew and "Send Email" returns False.
Submit(f, r) ==
    Rerun(f, Script(f, TRUE, FALSE, NoEmails, r, "idle", cache, files),
          [kind |-> "submit", emails |-> NoEmails, smtp |-> "idle"], r)

\* The user changes an email input the page shows: the script reruns, and
\* form_submit_button returns False.
EditEmailField(emails) ==
    /\ page.email_controls
    /\ Rerun(widgets, Script(widgets, FALSE, FALSE, emails, NoResponse, "idle", cache, files),
             [kind |-> "edit_email", emails |-> emails, smtp |-> "idle"], NoResponse)

\* The user presses the "Send Email" button the page shows, the email inputs
\* holding emails and the mail server behaving as smtp: the script reruns, and
\* form_submit_button returns False.
PressSendEmail(emails, smtp) ==
    /\ page.email_controls
    /\ Rerun(widgets, Script(widgets, FALSE, TRUE, emails, NoResponse, smtp, cache, files),
             [kind |-> "send_email", emails |-> emails, smtp |-> smtp], NoResponse)

\* The application: every address kind, every provider answer, every email interaction.
FlowForms ==
    {[Defaults EXCEPT !.address = a] : a \in {AddrEmpty, AddrSpaces, AddrToronto, AddrNowhere}}

Next ==
    \/ \E f \in FlowForms, r \in Responses : Submit(f, r)
    \/ \E e \in {SomeEmails, AllEmails} : EditEmailField(e)
    \/ \E e \in {NoEmails, AllEmails}, s \in {"ok", "connect", "login"} : PressSendEmail(e, s)

Spec == Init /\ [][Next]_vars

\* Pricing: estimates submitted one changed field at a time, over pool sizes of
\* every category, both step and tracking choices, 0..MaxLights lights, the
\* default and the dearest pump and heater, and a provider that answers,
\* answers with another status, or fails.
PricingForms ==
    OneFieldChanged(widgets, {AddrOak}, {}, {Ft(22), Ft(32), Ft(36) + 1}, {}, {},
                    {"Yes", "No"}, {"Side Mount Single Track", "Bullnose Single Track"},
                    0..MaxLights, {PUMP_LABELS[1], PUMP_LABELS[4]},
                    {HEATER_LABELS[1], HEATER_LABELS[5]})

NextPricing ==
    \E f \in PricingForms :
        \E r \in {OkResponse(5000, 720), FailResponse("NOT_FOUND"), FailResponse("error")} :
            Submit(f, r)

SpecPricing == Init /\ [][NextPricing]_vars

\* Classification: estimates submitted one changed field at a time, over widths,
\* lengths, distances and access widths at and around every threshold.
ClassifyForms ==
    OneFieldChanged(widgets, {AddrAjax}, {Ft(16), Ft(15)},
                    NearBy(Ft(22)) \cup NearBy(Ft(36)) \cup {Ft(32)},
                    NearBy(Ft(70)) \cup NearBy(Ft(120)) \cup {Ft(65)},
                    NearBy(Ft(70)) \cup {Ft(65)},
                    {}, {}, {}, {}, {})

NextClassify == \E f \in ClassifyForms : Submit(f, OkResponse(5000, 720))

SpecClassify == Init /\ [][NextClassify]_vars

\* Permits: estimates for addresses of every shape the address pattern tells apart.
PermitAddresses ==
    {AddrEmpty, AddrToronto, AddrBurlington, AddrNowhere, AddrTwoKeys, AddrNoProvince,
     AddrHyphenLower, AddrStreetName, AddrOnPrefix}

NextPermit ==
    \E a \in PermitAddresses :
        Submit([Defaults EXCEPT !.address = a], OkResponse(5000, 720))

SpecPermit == Init /\ [][NextPermit]_vars

----------------------------------------------------------------------------
(* What the claims are stated over                                         *)

Submitted == event.kind = "submit"

EstimateShown == page.kind = "estimate"

\* an address that is empty or holds whitespace only
WhitespaceOnly(s) == \A i \in 1..Len(s) : s[i] \in {" ", "\t"}

\* the value the page shows under a Summary key, the amount under a Breakdown label
Shown(key) == ValueOf(page.summary, key)

Amount(label) == ValueOf(page.breakdown, label)

\* the 21 line items of the Breakdown, in the order the page lists them
LineItemLabels ==
    << "Excavation", "Pool Work", "Liner Labor", "Liner Material + Steps", "HPB", "Steel",
       "Tracking", "Concrete", "Softbottom", "Lights", "Transformer", "Drain Kit",
       "Plumbing", "Heater", "Filter", "Pump", "Salt System (+salt)", "Winter Cover Area",
       "Winter Cover Labour", "Permit", "Drive Time Labour" >>

\* the cache entry of the address the form holds
CachedDrive == cache[<<DEPOT, widgets.address>>]

----------------------------------------------------------------------------
(* C1 *)

\* C1: every estimate submitted with a non-blank address, whatever the provider
\* did, shows a Breakdown that holds the 21 line items once each and then
\* "Total", and Total is the sum of the 21 amounts.
C1_TotalIsSumOfLineItems ==
    (Submitted /\ ~WhitespaceOnly(widgets.address)) =>
        /\ EstimateShown
        /\ Keys(page.breakdown) = LineItemLabels \o <<"Total">>
        /\ Amount("Total") = SumSeq([i \in 1..Len(LineItemLabels) |-> page.breakdown[i][2]])

\* an estimate with lights whose provider call answered OK, so that every kind
\* of line item is non-zero
C1_Witness ==
    /\ Submitted /\ EstimateShown
    /\ provider.called /\ provider.resp.status = "OK"
    /\ widgets.lights > 0
    /\ \A i \in 1..Len(LineItemLabels) : i # 20 => page.breakdown[i][2] > 0
    /\ Amount("Drive Time Labour") = Dollars(728)

----------------------------------------------------------------------------
(* C2 *)

\* C2: get_drive_km_and_time never raises.  For a blank destination it returns
\* (0, 0) without calling the provider.  An estimate submitted with a non-blank
\* address always completes with the full Breakdown; when the provider was
\* called and raised or answered with a status other than OK the function
\* returned (0, 0) and Drive Time Labour is 0; when it answered OK the function
\* returned (metres / 1000, seconds / 3600) and Drive Time Labour is
\* hours * 35 * 26 * 4.  (km counts thousandths and hr 3600ths, so the returned
\* pair is the provider's pair of numbers, and money counts 3600ths of a dollar.)
C2_DriveNeverRaises ==
    /\ \A a \in {AddrEmpty, AddrSpaces} : \A r \in Responses :
          LET ret == get_drive_km_and_time(DEPOT, a, r, cache)
          IN  ~ret.raised /\ ~ret.called /\ ret.km = 0 /\ ret.hr = 0
    /\ (Submitted /\ ~WhitespaceOnly(widgets.address)) =>
          /\ EstimateShown
          /\ Keys(page.breakdown) = LineItemLabels \o <<"Total">>
          /\ provider.called =>
                IF provider.resp.status = "OK"
                THEN /\ CachedDrive.km = provider.resp.distance
                     /\ CachedDrive.hr = provider.resp.duration
                     /\ Amount("Drive Time Labour") = provider.resp.duration * 35 * 26 * 4
                ELSE /\ CachedDrive.km = 0
                     /\ CachedDrive.hr = 0
                     /\ Amount("Drive Time Labour") = 0

\* an estimate completed although the provider call raised
C2_Witness ==
    /\ Submitted /\ EstimateShown
    /\ provider.called /\ provider.resp.status = "error"
    /\ Amount("Drive Time Labour") = 0
    /\ Amount("Total") > 0

----------------------------------------------------------------------------
(* C3 *)

\* C3: a request made right after a request for the same address whose provider
\* call failed (it raised, or answered with a status other than OK), and for
\* which the provider now answers OK, gets the provider's distance, time and
\* drive cost, and the earlier request left the cache as it was.
C3_FailureDoesNotCarryOver ==
    [][ ( /\ Submitted /\ EstimateShown
          /\ provider.called /\ provider.resp.status # "OK"
          /\ event'.kind = "submit"
          /\ widgets'.address = widgets.address
          /\ provider'.resp.status = "OK" )
        => ( /\ page'.kind = "estimate"
             /\ ValueOf(page'.breakdown, "Drive Time Labour")
                    = provider'.resp.duration * 35 * 26 * 4
             /\ ValueOf(page'.summary, "Drive Distance")
                    = RoundHalfEven(provider'.resp.distance, 10)
             /\ ValueOf(page'.summary, "Drive Time")
                    = RoundHalfEven(provider'.resp.duration, 60) )
      ]_vars

----------------------------------------------------------------------------
(* C4 *)

\* C4: a submission with a blank address (empty or whitespace only) renders the
\* validation error and nothing else: the provider is not called, the cache is
\* left alone, no Summary and no Breakdown is shown, no PDF is written, and
\* neither the download button nor the email controls are rendered.
C4_BlankAddressComputesNothing ==
    [][ (event'.kind = "submit" /\ WhitespaceOnly(widgets'.address))
        => ( /\ page'.kind = "error"
             /\ page'.messages =
                  << <<"error", "Please enter a valid pool address before generating estimate.">> >>
             /\ ~provider'.called
             /\ cache' = cache
             /\ page'.summary = <<>>
             /\ page'.breakdown = <<>>
             /\ files' = files
             /\ page'.download = <<>>
             /\ ~page'.email_controls
             /\ mail' = "none" )
      ]_vars

\* a whitespace-only address rejected after an earlier estimate had been produced
C4_Witness ==
    /\ Submitted
    /\ widgets.address = AddrSpaces
    /\ page.kind = "error"
    /\ files # {}
    /\ cache # <<>>

----------------------------------------------------------------------------
(* C5 *)

\* C5: with linearFeet = 2 * (width + length) the category shown is Small up to
\* and including 76, Medium above 76 up to and including 104, Large above 104;
\* every category has an INSTALL_COST entry and, with every tier, a COST_TABLE
\* entry holding the three base costs, and the estimate shows the entries of
\* its own category and tier.
C5_CategoryAndLookups ==
    /\ \A c \in {"Small", "Medium", "Large"} :
          /\ c \in DOMAIN INSTALL_COST
          /\ c \in DOMAIN COST_TABLE
          /\ \A d \in {"Easy", "Moderate", "Difficult"} :
                /\ d \in DOMAIN COST_TABLE[c]
                /\ DOMAIN COST_TABLE[c][d] = {"Excavation", "Pool Work", "Liner"}
    /\ (Submitted /\ ~WhitespaceOnly(widgets.address)) =>
          /\ EstimateShown
          /\ LET linearFeet == 2 * (widgets.width + widgets.length)
                 category   == Shown("Category")
                 tier       == Shown("Difficulty")
             IN  /\ linearFeet <= Ft(76) => category = "Small"
                 /\ (Ft(76) < linearFeet /\ linearFeet <= Ft(104)) => category = "Medium"
                 /\ linearFeet > Ft(104) => category = "Large"
                 /\ Amount("Excavation") = Dollars(COST_TABLE[category][tier]["Excavation"])
                 /\ Amount("Pool Work") = Dollars(COST_TABLE[category][tier]["Pool Work"])
                 /\ Amount("Liner Labor") = Dollars(COST_TABLE[category][tier]["Liner"])
                 /\ Amount("Liner Material + Steps")
                      = Cents(INSTALL_COST[category]) + PerFoot(linearFeet, 2212)

\* a pool of exactly 104 linear feet, shown as Medium, with a Difficult site
C5_Witness ==
    /\ Submitted /\ EstimateShown
    /\ 2 * (widgets.width + widgets.length) = Ft(104)
    /\ Shown("Category") = "Medium"
    /\ Shown("Difficulty") = "Difficult"

----------------------------------------------------------------------------
(* C6 *)

\* C6: the tier shown is Easy exactly when distance <= 70 and access >= 70,
\* Moderate exactly when the score is 2, which is when distance <= 70 and
\* access < 70 or 70 < distance <= 120 and access >= 70, and Difficult in every
\* other case; the score is the product of distFactor (1 up to 70, 2 up to 120,
\* else 3) and accessFactor (2 below 70, else 1), one of 1, 2, 3, 4, 6, never 5.
C6_DifficultyTiers ==
    EstimateShown =>
        LET d     == widgets.dist_to_pool
            a     == widgets.access_in
            tier  == Shown("Difficulty")
            score == difficulty_score(d, a)
            easy  == d <= Ft(70) /\ a >= Ft(70)
            moderate == \/ d <= Ft(70) /\ a < Ft(70)
                        \/ Ft(70) < d /\ d <= Ft(120) /\ a >= Ft(70)
        IN  /\ tier = "Easy" <=> easy
            /\ tier = "Moderate" <=> moderate
            /\ tier = "Moderate" <=> score = 2
            /\ tier = "Difficult" <=> (~easy /\ ~moderate)
            /\ score = (IF d <= Ft(70) THEN 1 ELSE IF d <= Ft(120) THEN 2 ELSE 3)
                       * (IF a < Ft(70) THEN 2 ELSE 1)
            /\ score \in {1, 2, 3, 4, 6}
            /\ score # 5

\* distance exactly 70 with access just below 70: Moderate
C6_Witness ==
    /\ EstimateShown
    /\ widgets.dist_to_pool = Ft(70)
    /\ widgets.access_in = Ft(70) - 1
    /\ Shown("Difficulty") = "Moderate"

----------------------------------------------------------------------------
(* C7 *)

\* C7: between two successive estimates that differ only in one more light, with
\* the same drive cost, Total grows by 366.65 plus the transformer's 140.33 when
\* the lights go from 0 to 1, and by 366.65 alone from any n >= 1 to n + 1.
C7_OneMoreLight ==
    [][ ( /\ EstimateShown
          /\ page'.kind = "estimate"
          /\ widgets' = [widgets EXCEPT !.lights = @ + 1]
          /\ ValueOf(page'.breakdown, "Drive Time Labour") = Amount("Drive Time Labour") )
        => ( /\ FIXED_COSTS.Transformer = 14033
             /\ ValueOf(page'.breakdown, "Total") - Amount("Total")
                  = IF widgets.lights = 0
                    THEN Cents(36665) + Cents(FIXED_COSTS.Transformer)
                    ELSE Cents(36665) )
      ]_vars

\* an estimate with two lights: two lights and one transformer are charged
C7_Witness ==
    /\ EstimateShown
    /\ widgets.lights = 2
    /\ Amount("Lights") = 2 * Cents(36665)
    /\ Amount("Transformer") = Cents(14033)

----------------------------------------------------------------------------
(* C8 *)

\* the commas of the address that are followed, after optional whitespace, by
\* "on" in any case (the start of ", ON" and of ", Ontario") and preceded by a
\* word character, whitespace or a hyphen
ProvinceCommas(address) ==
    {p \in 2..Len(address) :
        /\ address[p] = ","
        /\ address[p-1] \in WordSet \cup SpaceSet \cup {"-"}
        /\ \E j \in (p+1)..(Len(address) - 1) :
              /\ \A k \in (p+1)..(j-1) : address[k] \in SpaceSet
              /\ ToLower(address[j]) = "o"
              /\ ToLower(address[j+1]) = "n"}

\* the locality before the first such comma: the longest run of word characters,
\* whitespace and hyphens that ends there, trimmed and lower-cased
LocalityBeforeProvince(address) ==
    IF ProvinceCommas(address) = {} THEN <<>>
    ELSE LET p == CHOOSE x \in ProvinceCommas(address) :
                      \A y \in ProvinceCommas(address) : x <= y
             runs == {s \in 1..(p-1) :
                         \A k \in s..(p-1) : address[k] \in WordSet \cup SpaceSet \cup {"-"}}
             s == CHOOSE x \in runs : \A y \in runs : x <= y
         IN  Lower(Strip(SubSeq(address, s, p - 1)))

\* the fee of the first table entry whose key is a substring of city, else 0
FirstMatchingFee(city) ==
    LET hits == {i \in 1..Len(PERMIT_COSTS) : Contains(city, PERMIT_COSTS[i].key)}
    IN  IF hits = {} THEN 0
        ELSE PERMIT_COSTS[CHOOSE i \in hits : \A j \in hits : i <= j].fee

----------------------------------------------------------------------------
(* C9 *)

\* C9: when "Send Email" is pressed with the three email inputs filled and the
\* mail server refuses the connection or the login, the run calls
\* send_email_with_attachment, which fails without raising, the page shows the
\* failed-send message, and the PDF is still offered for download.
C9_FailedSendIsReported ==
    ( /\ event.kind = "send_email"
      /\ event.emails.recipient_email # ""
      /\ event.emails.sender_email # ""
      /\ event.emails.sender_password # ""
      /\ event.smtp # "ok" )
    => ( /\ mail = "failed"
         /\ page.kind # "exception"
         /\ \E i \in 1..Len(page.messages) :
               page.messages[i] = <<"error", "Failed to send email">>
         /\ page.download # <<>> )

----------------------------------------------------------------------------
(* C10 *)

\* C10: once an estimate is shown, the reruns triggered by editing the email
\* inputs keep the email controls on the page, and the rerun triggered by
\* pressing "Send Email" with the three inputs filled calls
\* send_email_with_attachment.
C10_SendBranchReached ==
    /\ event.kind = "edit_email" => page.email_controls
    /\ ( /\ event.kind = "send_email"
         /\ event.emails.recipient_email # ""
         /\ event.emails.sender_email # ""
         /\ event.emails.sender_password # "" )
       => mail # "none"

============================================================================
